---- MODULE Spec2Model ----
(***************************************************************************)
(* Model of the customer-support orchestration core                        *)
(* (src/customer_support_agent.py): the public API start_conversation /    *)
(* send_message / stream_message, the compiled state graph                 *)
(* identify -> supervisor -> specialist -> supervisor ... -> END, and the  *)
(* ticket/conversation store the escalation node writes to                 *)
(* (src/customer_database.py).                                             *)
(*                                                                         *)
(* Message contents are strings and every text operation of the source     *)
(* (the two re.sub patterns, re.search, str.split, str.lower, the `in`     *)
(* substring tests, the f-strings) is computed character by character.     *)
(***************************************************************************)
EXTENDS Integers, Sequences, FiniteSets, TLC

VARIABLES
    conv,       \* the state dict the caller holds and passes to the next call
    pre,        \* value of that dict just before the current/last call
    arg,        \* the dict object that was passed to the current/last call
    text,       \* raw text of the current/last inbound message
    mode,       \* "none" | "invoke" (send_message) | "stream" (stream_message)
    chan,       \* channel values of the running graph (the graph's state)
    pc,         \* "idle", or the node the graph runs next
    steps,      \* node steps executed by the current/last run
    trace,      \* the nodes executed by the current/last run, in order, each with
                \* the active_agent of the dict it returned
    events,     \* the nodes named by the events stream_message has yielded in the
                \* current/last call, in order (empty under send_message)
    llm_log,    \* results of the router_chain.invoke calls of the current/last run
    store_log,  \* the store calls of the nodes of the current/last run, in order,
                \* each with its result ("ok" | "raise")
    outcome,    \* how the last call ended: "none" (not yet) | "returned" |
                \* "recursion_error" | "save_error" (save_conversation raised) |
                \* "ticket_error" (create_ticket raised) | "lookup_error"
                \* (get_customer_by_email or get_customer_orders raised)
    turn,       \* number of calls started so far
    now,        \* the wall clock (seconds) read by datetime.now()
    tickets,    \* rows of the tickets table
    saved,      \* rows of the conversations table
    \* a second run on the same agent and store: in PairSpec a second call with
    \* the same (state, text), made on a fresh copy of the state; in
    \* ConcurrentSpec the run of a second conversation:
    chan2,      \* channel values of its graph run
    pc2,        \* "idle", or the node its run executes next
    steps2,     \* node steps its run executed
    llm_log2,   \* results of its router_chain.invoke calls
    outcome2,   \* how it ended, as for outcome
    \* the helper functions applied on their own (TrimSpec and ScrubSpec only;
    \* ScrubSpec uses text as the argument of _scrub_pii):
    window_in,  \* the messages argument of _trim_messages
    window_max, \* the max_messages argument of _trim_messages
    window_out, \* what _trim_messages(messages, max_messages) returned
    scrubbed    \* what _scrub_pii(text) returned

run2 == <<chan2, pc2, steps2, llm_log2, outcome2>>

pure == <<window_in, window_max, window_out, scrubbed>>

vars == <<conv, pre, arg, text, mode, chan, pc, steps, trace, events, llm_log, store_log, outcome,
          turn, now, tickets, saved, run2, pure>>

-----------------------------------------------------------------------------
(* Bounds of the exploration *)

\* calls (inbound messages) per conversation; a call after the first is
\* explored on a conversation under human takeover
MaxTurns == 2
\* node steps one run may take before the runner gives up with
\* GraphRecursionError; stands for the runner's recursion limit, which the
\* source leaves at the library default (graph.invoke(state) without config)
MaxSteps == 6
\* largest clock value
MaxClock == 1

-----------------------------------------------------------------------------
(* Characters and strings *)

Char(s, i) == SubSeq(s, i, i)

LowerCase == "abcdefghijklmnopqrstuvwxyz"
UpperCase == "ABCDEFGHIJKLMNOPQRSTUVWXYZ"
DigitChars == "0123456789"

CharsOf(s) == {Char(s, i) : i \in 1..Len(s)}

Digits == CharsOf(DigitChars)
\* \w
WordChars == CharsOf(LowerCase) \cup CharsOf(UpperCase) \cup Digits \cup {"_"}
\* [\w\.-]
EmailChars == WordChars \cup {".", "-"}
\* \s
SpaceChars == {" ", "\t", "\n", "\r"}

IsDigit(c) == c \in Digits
IsEmailCh(c) == c \in EmailChars
IsSpace(c) == c \in SpaceChars

\* `sub in s`
Contains(s, sub) ==
    \E i \in 1..(Len(s) - Len(sub) + 1) : SubSeq(s, i, i + Len(sub) - 1) = sub

\* upper-case letter -> lower-case letter
ToLower == [c \in CharsOf(UpperCase) |->
               Char(LowerCase, CHOOSE i \in 1..Len(UpperCase) : Char(UpperCase, i) = c)]

LowerCh(c) == IF c \in DOMAIN ToLower THEN ToLower[c] ELSE c

RECURSIVE Lower(_)
\* str.lower(), by halves
Lower(s) ==
    IF Len(s) = 0 THEN ""
    ELSE IF Len(s) = 1 THEN LowerCh(s)
    ELSE LET h == Len(s) \div 2 IN
         Lower(SubSeq(s, 1, h)) \o Lower(SubSeq(s, h + 1, Len(s)))

\* len(s.split()): the number of maximal runs of non-space characters
WordCount(s) ==
    Cardinality({i \in 1..Len(s) :
                    /\ ~IsSpace(Char(s, i))
                    /\ (i = 1 \/ IsSpace(Char(s, i - 1)))})

Min(S) == CHOOSE x \in S : \A y \in S : x <= y

-----------------------------------------------------------------------------
(* The e-mail pattern [\w\.-]+@[\w\.-]+ *)

\* index of the last character of the longest run of [\w\.-] starting at i
\* (i - 1 when there is none)
EmailRunEnd(s, i) ==
    Min({k \in i..(Len(s) + 1) : k = Len(s) + 1 \/ ~IsEmailCh(Char(s, k))}) - 1

\* end of the match starting at i, 0 when the pattern does not match there.
\* "@" is outside the class, so only the longest first run can be followed by it.
EmailMatchEnd(s, i) ==
    LET a == EmailRunEnd(s, i) IN
    IF a >= i /\ a + 1 <= Len(s) /\ Char(s, a + 1) = "@"
    THEN LET b == EmailRunEnd(s, a + 2) IN IF b >= a + 2 THEN b ELSE 0
    ELSE 0

RECURSIVE SubEmailFrom(_, _)
\* re.sub of the e-mail pattern on s[i..]: leftmost matches, not overlapping
SubEmailFrom(s, i) ==
    LET starts == {j \in i..Len(s) : EmailMatchEnd(s, j) > 0} IN
    IF starts = {} THEN SubSeq(s, i, Len(s))
    ELSE LET j == Min(starts) IN
         SubSeq(s, i, j - 1) \o "[EMAIL_MASKED]" \o SubEmailFrom(s, EmailMatchEnd(s, j) + 1)

\* re.search(...).group(): the leftmost match, "" for None
SearchEmail(s) ==
    LET starts == {j \in 1..Len(s) : EmailMatchEnd(s, j) > 0} IN
    IF starts = {} THEN ""
    ELSE SubSeq(s, Min(starts), EmailMatchEnd(s, Min(starts)))

-----------------------------------------------------------------------------
(* The phone pattern \+?\d{1,3}[\s-]?\(?\d{3}\)?[\s-]?\d{3}[\s-]?\d{4}      *)
(* as a sequence of one-character items, each required or optional; the     *)
(* greedy \d{1,3} is \d\d?\d?.                                               *)

PhonePattern ==
    << [cls |-> "plus",  opt |-> TRUE],
       [cls |-> "digit", opt |-> FALSE], [cls |-> "digit", opt |-> TRUE],
       [cls |-> "digit", opt |-> TRUE],
       [cls |-> "sep",   opt |-> TRUE],
       [cls |-> "lpar",  opt |-> TRUE],
       [cls |-> "digit", opt |-> FALSE], [cls |-> "digit", opt |-> FALSE],
       [cls |-> "digit", opt |-> FALSE],
       [cls |-> "rpar",  opt |-> TRUE],
       [cls |-> "sep",   opt |-> TRUE],
       [cls |-> "digit", opt |-> FALSE], [cls |-> "digit", opt |-> FALSE],
       [cls |-> "digit", opt |-> FALSE],
       [cls |-> "sep",   opt |-> TRUE],
       [cls |-> "digit", opt |-> FALSE], [cls |-> "digit", opt |-> FALSE],
       [cls |-> "digit", opt |-> FALSE], [cls |-> "digit", opt |-> FALSE] >>

InClass(c, cls) ==
    CASE cls = "plus"  -> c = "+"
      [] cls = "digit" -> IsDigit(c)
      [] cls = "sep"   -> IsSpace(c) \/ c = "-"
      [] cls = "lpar"  -> c = "("
      [] cls = "rpar"  -> c = ")"

RECURSIVE PhoneMatch(_, _, _)
\* backtracking match of items k.. at position i: index of the last matched
\* character of the first successful alternative (greedy first), -1 on failure
PhoneMatch(s, i, k) ==
    IF k > Len(PhonePattern) THEN i - 1
    ELSE LET item == PhonePattern[k]
             hit == i <= Len(s) /\ InClass(Char(s, i), item.cls)
         IN IF item.opt
            THEN LET taken == IF hit THEN PhoneMatch(s, i + 1, k + 1) ELSE -1
                 IN IF taken # -1 THEN taken ELSE PhoneMatch(s, i, k + 1)
            ELSE IF hit THEN PhoneMatch(s, i + 1, k + 1) ELSE -1

RECURSIVE SubPhoneFrom(_, _)
\* re.sub of the phone pattern on s[i..]: leftmost matches, not overlapping
SubPhoneFrom(s, i) ==
    LET starts == {j \in i..Len(s) : PhoneMatch(s, j, 1) # -1} IN
    IF starts = {} THEN SubSeq(s, i, Len(s))
    ELSE LET j == Min(starts) IN
         SubSeq(s, i, j - 1) \o "[PHONE_MASKED]" \o SubPhoneFrom(s, PhoneMatch(s, j, 1) + 1)

\* the body of _scrub_pii: mask e-mails, then phone numbers
Scrub(s) == SubPhoneFrom(SubEmailFrom(s, 1), 1)

\* raw inbound texts offered to send_message / stream_message
Inputs ==
    {"my email is alice@example.com, where is my order",
     "I want to dispute this charge",
     "call +1 415-555-0100 now"}

\* the fixed texts of the assistant
Greeting == "Welcome to Enterprise Support. How can I help today?"
AskEmailText == "I can help with orders! Please provide your email."
BillingText == "Billing Specialist here. All your payments are up to date!"
GeneralText == "Generalist here. How can I help you?"
TechAnswers ==
    {"Go to login -> Forgot Password.",
     "Ensure cookies are enabled and try Incognito mode.",
     "Please describe your technical issue in more detail."}
TechText(match) == "Tech Specialist: " \o match \o "\nDid that help?"

\* Scrub of the texts that recur in every run, computed once
ScrubMemo ==
    [s \in Inputs \cup {Scrub(m) : m \in Inputs}
            \cup {Greeting, AskEmailText, BillingText, GeneralText}
            \cup {TechText(a) : a \in TechAnswers} |-> Scrub(s)]

\* _scrub_pii
ScrubPii(s) == IF s \in DOMAIN ScrubMemo THEN ScrubMemo[s] ELSE Scrub(s)

-----------------------------------------------------------------------------
(* Messages and the conversation state *)

AIMessage(c) == [role |-> "ai", content |-> c]
HumanMessage(c) == [role |-> "human", content |-> c]

None == "None"

\* RouterDecision.next_agent
RouterAgents ==
    {"order_specialist", "tech_specialist", "billing_specialist",
     "general_support", "escalate", "end"}

\* what router_chain.invoke(prompt) can do: return a decision, or raise
LlmResults == RouterAgents \cup {"raise"}

\* the customers table after _seed_data
Customers ==
    {[customer_id |-> "C1", name |-> "Alice Johnson", email |-> "alice@example.com",
      tier |-> "premium"],
     [customer_id |-> "C2", name |-> "Bob Smith", email |-> "bob@example.com",
      tier |-> "standard"]}

\* the orders table after _seed_data, in insertion order
Orders ==
    << [order_id |-> "ORD-123", customer_id |-> "C1", status |-> "Shipped",
        items |-> "Wireless Headphones, USB-C Cable"],
       [order_id |-> "ORD-456", customer_id |-> "C1", status |-> "Processing",
        items |-> "Smart Watch"] >>

\* fetchone() found no row
NoCustomer == [customer_id |-> None, name |-> None, email |-> None, tier |-> None]

\* get_customer_by_email: the row, or no row
GetCustomerByEmail(email) ==
    IF \E c \in Customers : c.email = email
    THEN CHOOSE c \in Customers : c.email = email
    ELSE NoCustomer

\* get_customer_orders: the rows of the customer, in table order
GetCustomerOrders(cid) == SelectSeq(Orders, LAMBDA o : o.customer_id = cid)

\* start_conversation
StartConversation ==
    [messages |-> <<AIMessage(Greeting)>>,
     customer_id |-> None, customer_name |-> None, customer_tier |-> "standard",
     active_agent |-> "supervisor", resolved |-> FALSE, requires_escalation |-> FALSE,
     is_human_takeover |-> FALSE, total_tokens |-> 0]

Last(seq) == seq[Len(seq)]

\* len(safe_msg.split()) * 2 + 100
EstimateTokens(safe_msg) == WordCount(safe_msg) * 2 + 100

\* ingestion that stores the text as received
IngestStoresRaw(state, message) ==
    LET safe_msg == ScrubPii(message) IN
    [state EXCEPT !.messages = Append(@, HumanMessage(message)),
                  !.total_tokens = @ + EstimateTokens(safe_msg)]

\* ingestion that estimates the tokens from the text as received instead of
\* the redacted text
IngestRawEstimate(state, message) ==
    LET safe_msg == ScrubPii(message) IN
    [state EXCEPT !.messages = Append(@, HumanMessage(safe_msg)),
                  !.total_tokens = @ + EstimateTokens(message)]

\* ingestion that leaves a conversation under human takeover as it is
IngestSkipsTakeover(state, message) ==
    LET safe_msg == ScrubPii(message) IN
    IF state.is_human_takeover THEN state
    ELSE [state EXCEPT !.messages = Append(@, HumanMessage(safe_msg)),
                       !.total_tokens = @ + EstimateTokens(safe_msg)]

\* the first three statements of send_message / stream_message: the caller's
\* dict is changed in place
Ingest(state, message) ==
    LET safe_msg == ScrubPii(message) IN
    [state EXCEPT !.messages = Append(@, HumanMessage(safe_msg)),
                  !.total_tokens = @ + EstimateTokens(safe_msg)]

-----------------------------------------------------------------------------
(* The nodes: each maps the graph state to the dict it returns *)

\* an identify step without the early return on a bound customer
IdentifyNodeNoGuard(state) ==
    LET last_msg == IF Len(state.messages) > 0 THEN Last(state.messages).content ELSE ""
        match == SearchEmail(last_msg)
    IN IF match # ""
       THEN LET customer == GetCustomerByEmail(match) IN
            IF customer # NoCustomer
            THEN [state EXCEPT !.customer_id = customer.customer_id,
                               !.customer_name = customer.name,
                               !.customer_tier = customer.tier]
            ELSE state
       ELSE state

\* _identify_node
IdentifyNode(state) ==
    IF state.customer_id # None THEN state
    ELSE LET last_msg == IF Len(state.messages) > 0 THEN Last(state.messages).content ELSE ""
             match == SearchEmail(last_msg)
         IN IF match # ""
            THEN LET customer == GetCustomerByEmail(match) IN
                 IF customer # NoCustomer
                 THEN [state EXCEPT !.customer_id = customer.customer_id,
                                    !.customer_name = customer.name,
                                    !.customer_tier = customer.tier]
                 ELSE state
            ELSE state

\* a window that keeps the most recent max_messages whatever the first one is
TrimMessagesLastOnly(messages, max_messages) ==
    IF Len(messages) <= max_messages THEN messages
    ELSE SubSeq(messages, Len(messages) - max_messages + 1, Len(messages))

\* seq[start:] of a Python list: a negative start counts from the end and is
\* clipped at the first item; a start of 0 (also written -0) is the whole list
SliceFrom(seq, start) ==
    LET lo == IF start < 0
              THEN (IF Len(seq) + start > 0 THEN Len(seq) + start ELSE 0)
              ELSE (IF start < Len(seq) THEN start ELSE Len(seq))
    IN SubSeq(seq, lo + 1, Len(seq))

\* _trim_messages
TrimMessages(messages, max_messages) ==
    IF Len(messages) <= max_messages THEN messages
    ELSE IF messages[1].role = "system"
         THEN <<messages[1]>> \o SliceFrom(messages, -(max_messages - 1))
         ELSE SliceFrom(messages, -max_messages)

\* default of max_messages
DefaultMaxMessages == 10

\* the two early returns of _supervisor_node; when neither applies the node
\* calls router_chain.invoke
SupervisorShortCircuits(state) ==
    \/ state.is_human_takeover
    \/ LET trimmed_messages == TrimMessages(state.messages, DefaultMaxMessages) IN
       /\ Last(trimmed_messages).role = "ai"
       /\ Contains(Last(trimmed_messages).content, "help you today")

\* a supervisor that ends the run of a conversation under human takeover by
\* handing it back to the automation
SupervisorNodeResumes(state, r) ==
    IF SupervisorShortCircuits(state)
    THEN [state EXCEPT !.active_agent = "end", !.is_human_takeover = FALSE]
    ELSE IF r = "raise" THEN [state EXCEPT !.active_agent = "general_support"]
    ELSE [state EXCEPT !.active_agent = r]

\* a supervisor that ends the turn when the reasoning call raises
SupervisorNodeGivesUp(state, r) ==
    IF SupervisorShortCircuits(state) THEN [state EXCEPT !.active_agent = "end"]
    ELSE IF r = "raise" THEN [state EXCEPT !.active_agent = "end"]
    ELSE [state EXCEPT !.active_agent = r]

\* _supervisor_node, r being what router_chain.invoke does when it is called
SupervisorNode(state, r) ==
    IF SupervisorShortCircuits(state) THEN [state EXCEPT !.active_agent = "end"]
    ELSE IF r = "raise" THEN [state EXCEPT !.active_agent = "general_support"]
    ELSE [state EXCEPT !.active_agent = r]

\* _order_agent_node
OrderAgentNode(state) ==
    IF state.customer_id = None
    THEN [state EXCEPT !.messages =
              <<AIMessage(AskEmailText)>>]
    ELSE LET orders == GetCustomerOrders(state.customer_id)
             resp == IF Len(orders) = 0
                     THEN "I found no active orders in your history."
                     ELSE "Your latest order " \o orders[1].order_id \o " (" \o
                          orders[1].items \o ") is currently " \o orders[1].status \o "."
         IN [state EXCEPT !.messages = <<AIMessage(resp \o "\nAnything else?")>>]

\* _tech_agent_node; kb is searched in insertion order
TechAgentNode(state) ==
    LET query == Lower(Last(state.messages).content)
        match == IF Contains(query, "password") THEN "Go to login -> Forgot Password."
                 ELSE IF Contains(query, "login")
                      THEN "Ensure cookies are enabled and try Incognito mode."
                      ELSE "Please describe your technical issue in more detail."
    IN [state EXCEPT !.messages =
            <<AIMessage(TechText(match))>>]

BillingTriggers == {"refund", "charge", "dispute"}

BillingTriggered(state) ==
    LET msg == Lower(Last(state.messages).content) IN
    \E w \in BillingTriggers : Contains(msg, w)

\* _billing_agent_node
BillingAgentNode(state) ==
    IF BillingTriggered(state) THEN [state EXCEPT !.active_agent = "escalate"]
    ELSE [state EXCEPT !.messages =
              <<AIMessage(BillingText)>>]

\* a generalist that returns the transcript with its answer added to it
GeneralSupportNodeWholeList(state) ==
    [state EXCEPT !.messages = Append(@, AIMessage(GeneralText))]

\* _general_support_node
GeneralSupportNode(state) ==
    [state EXCEPT !.messages = <<AIMessage(GeneralText)>>]

\* strftime('%y%m%d%H%M%S') of the clock: one value per second
Strftime(t) == "26110322470" \o ToString(t)

\* create_ticket: the id it computes
TicketId(t) == "TICK-" \o Strftime(t)

\* masked_msgs of _escalation_node (each distinct content is scrubbed once)
MaskedMsgs(messages) ==
    LET masked == [c \in {messages[i].content : i \in 1..Len(messages)} |-> ScrubPii(c)]
    IN [i \in 1..Len(messages) |-> masked[messages[i].content]]

\* the row save_conversation writes for session_data of _escalation_node;
\* cost_estimate is tokens * 0.00000014, kept in units of 1e-8
ConversationRow(state, t) ==
    [conversation_id |-> "SESS-" \o ToString(t),
     customer_id |-> state.customer_id,
     messages_json |-> MaskedMsgs(state.messages),
     resolved_status |-> TRUE,
     final_sentiment |-> "neutral",
     final_priority |-> "high",
     total_tokens |-> state.total_tokens,
     cost_estimate |-> state.total_tokens * 14]

\* INSERT OR REPLACE INTO conversations
SaveConversation(rows, row) ==
    {r \in rows : r.conversation_id # row.conversation_id} \cup {row}

\* the row create_ticket inserts
TicketRow(state, t) ==
    [ticket_id |-> TicketId(t), customer_id |-> state.customer_id, created_date |-> t,
     status |-> "OPEN", priority |-> "High", category |-> "General",
     description |-> "Auto-escalated."]

\* an escalation node that hands the routing back as start_conversation set it
EscalationNodeResetsAgent(state, tid) ==
    [state EXCEPT !.messages =
                      <<AIMessage("ESCALATION: A human will help you. Ticket #" \o tid \o
                                  ". AI is now paused.")>>,
                  !.is_human_takeover = TRUE,
                  !.active_agent = "supervisor"]

\* the dict _escalation_node returns once both store calls succeeded
EscalationNode(state, tid) ==
    [state EXCEPT !.messages =
                      <<AIMessage("ESCALATION: A human will help you. Ticket #" \o tid \o
                                  ". AI is now paused.")>>,
                  !.is_human_takeover = TRUE]

-----------------------------------------------------------------------------
(* The graph *)

\* channels without a reducer on messages: the last value written wins
ApplyUpdateLastValue(values, update) == update

\* the channels: messages is reduced with operator.add, every other key keeps
\* the last value written
ApplyUpdate(values, update) ==
    [update EXCEPT !.messages = values.messages \o update.messages]

\* channels that keep the messages of the run before (a graph compiled with
\* a checkpointer and run on one thread)
LoadInputRetained(state) == ApplyUpdate(chan, state)

\* the channels after the input dict was written to them
LoadInput(state) == ApplyUpdate([state EXCEPT !.messages = <<>>], state)

\* add_conditional_edges("supervisor", lambda x: x["active_agent"], {...})
Route(active_agent) ==
    CASE active_agent = "order_specialist"   -> "order_agent"
      [] active_agent = "tech_specialist"    -> "tech_agent"
      [] active_agent = "billing_specialist" -> "billing_agent"
      [] active_agent = "general_support"    -> "general_agent"
      [] active_agent = "escalate"           -> "escalate"
      [] active_agent = "end"                -> "END"

Specialists == {"order_agent", "tech_agent", "billing_agent", "general_agent"}
Nodes == {"identify", "supervisor", "escalate"} \cup Specialists

\* a graph whose escalation node has an edge back to the supervisor, like the
\* specialists
EdgeEscalateReturns(node, update) ==
    IF node = "identify" THEN "supervisor"
    ELSE IF node = "supervisor" THEN Route(update.active_agent)
    ELSE "supervisor"

\* the edges of _build_graph: where the run goes after node returned update
Edge(node, update) ==
    IF node = "identify" THEN "supervisor"
    ELSE IF node = "supervisor" THEN Route(update.active_agent)
    ELSE IF node \in Specialists THEN "supervisor"
    ELSE "END"

\* what the caller holds after a node finished: send_message hands back the
\* final graph state (api.py keeps it); a stream_message consumer keeps the
\* dict of the latest event (app.py)
CallerView(update, values, next) ==
    IF mode = "stream" THEN update
    ELSE IF next = "END" THEN values
    ELSE conv

\* graph.stream in a mode that yields only the steps that produced a message
EmitMessagesOnly(node, update) ==
    IF mode = "stream" /\ Len(update.messages) = 1 THEN Append(events, node) ELSE events

\* for output in self.graph.stream(state): yield output -- the runner yields
\* {node: update} when the node has returned; send_message yields nothing
Emit(node, update) ==
    IF mode = "stream" THEN Append(events, node) ELSE events

\* one node step of the runner: write the returned dict to the channels, emit
\* the event, follow the edge
NodeStep(node, update) ==
    LET next == Edge(node, update) IN
    /\ pc = node
    /\ steps < MaxSteps
    /\ chan' = ApplyUpdate(chan, update)
    /\ trace' = Append(trace, [node |-> node, active_agent |-> update.active_agent])
    /\ events' = Emit(node, update)
    /\ steps' = steps + 1
    /\ conv' = CallerView(update, chan', next)
    /\ pc' = IF next = "END" THEN "idle" ELSE next
    /\ outcome' = IF next = "END" THEN "returned" ELSE outcome

\* an exception leaves the node: the runner lets it through to the caller of
\* send_message / stream_message, nothing is written to the channels
Fail(node, error) ==
    /\ pc = node
    /\ steps < MaxSteps
    /\ pc' = "idle"
    /\ outcome' = error
    /\ UNCHANGED <<conv, chan, trace, events, steps>>

\* _identify_node reaches its get_customer_by_email call
IdentifyLooksUp(state) ==
    /\ state.customer_id = None
    /\ Len(state.messages) > 0
    /\ SearchEmail(Last(state.messages).content) # ""

\* the ways a store call of a node can go: the store answers, or it raises
\* (file locked or unreachable)
StoreResults(called) == IF called THEN {"ok", "raise"} ELSE {"ok"}

StoreCall(call, result) == [call |-> call, result |-> result]

Identify ==
    /\ pc = "identify"
    /\ \E db \in StoreResults(IdentifyLooksUp(chan)) :
        /\ IF db = "ok"
           THEN NodeStep("identify", IdentifyNode(chan))
           ELSE Fail("identify", "lookup_error")
        /\ store_log' = IF IdentifyLooksUp(chan)
                        THEN Append(store_log, StoreCall("get_customer_by_email", db))
                        ELSE store_log
        /\ UNCHANGED <<pre, arg, text, mode, llm_log, turn, now, tickets, saved, run2, pure>>

\* the router_chain.invoke results a supervisor step on state can meet
LlmChoices(state) == IF SupervisorShortCircuits(state) THEN {"nocall"} ELSE LlmResults

Supervisor ==
    \E r \in LlmChoices(chan) :
        /\ NodeStep("supervisor", SupervisorNode(chan, r))
        /\ llm_log' = IF r = "nocall" THEN llm_log ELSE Append(llm_log, r)
        /\ UNCHANGED <<pre, arg, text, mode, store_log, turn, now, tickets, saved, run2, pure>>

\* get_customer_orders is called when a customer is bound
OrderAgent ==
    /\ pc = "order_agent"
    /\ \E db \in StoreResults(chan.customer_id # None) :
        /\ IF db = "ok"
           THEN NodeStep("order_agent", OrderAgentNode(chan))
           ELSE Fail("order_agent", "lookup_error")
        /\ store_log' = IF chan.customer_id # None
                        THEN Append(store_log, StoreCall("get_customer_orders", db))
                        ELSE store_log
        /\ UNCHANGED <<pre, arg, text, mode, llm_log, turn, now, tickets, saved, run2, pure>>

TechAgent ==
    /\ NodeStep("tech_agent", TechAgentNode(chan))
    /\ UNCHANGED <<pre, arg, text, mode, llm_log, store_log, turn, now, tickets, saved, run2, pure>>

BillingAgent ==
    /\ NodeStep("billing_agent", BillingAgentNode(chan))
    /\ UNCHANGED <<pre, arg, text, mode, llm_log, store_log, turn, now, tickets, saved, run2, pure>>

GeneralAgent ==
    /\ NodeStep("general_agent", GeneralSupportNode(chan))
    /\ UNCHANGED <<pre, arg, text, mode, llm_log, store_log, turn, now, tickets, saved, run2, pure>>

\* create_ticket fails: the ticket id read off the clock is already a key of
\* the tickets table
TicketIdTaken(t) == \E row \in tickets : row.ticket_id = TicketId(t)

\* an escalation node that catches the exceptions of its store calls and
\* hands the conversation over all the same
EscalateSwallowsErrors ==
    \E t \in now..MaxClock, save \in StoreResults(TRUE), ticket \in StoreResults(TRUE) :
        LET made == ticket = "ok" /\ ~TicketIdTaken(t) IN
        /\ pc = "escalate"
        /\ now' = t
        /\ saved' = IF save = "ok" THEN SaveConversation(saved, ConversationRow(chan, t))
                    ELSE saved
        /\ tickets' = IF made THEN tickets \cup {TicketRow(chan, t)} ELSE tickets
        /\ store_log' = store_log \o
               <<StoreCall("save_conversation", save),
                 StoreCall("create_ticket", IF made THEN "ok" ELSE "raise")>>
        /\ NodeStep("escalate", EscalationNode(chan, IF made THEN TicketId(t) ELSE "PENDING"))
        /\ UNCHANGED <<pre, arg, text, mode, llm_log, turn, run2, pure>>

\* an escalation node that creates the ticket first and saves the
\* conversation after it
EscalateTicketFirst ==
    \E t \in now..MaxClock, save \in StoreResults(TRUE), ticket \in StoreResults(TRUE) :
        /\ pc = "escalate"
        /\ now' = t
        /\ IF ticket = "raise" \/ TicketIdTaken(t)
           THEN /\ Fail("escalate", "ticket_error")
                /\ store_log' = Append(store_log, StoreCall("create_ticket", "raise"))
                /\ UNCHANGED <<saved, tickets>>
           ELSE /\ tickets' = tickets \cup {TicketRow(chan, t)}
                /\ store_log' = store_log \o <<StoreCall("create_ticket", "ok"),
                                                StoreCall("save_conversation", save)>>
                /\ IF save = "raise"
                   THEN /\ Fail("escalate", "save_error")
                        /\ UNCHANGED saved
                   ELSE /\ saved' = SaveConversation(saved, ConversationRow(chan, t))
                        /\ NodeStep("escalate", EscalationNode(chan, TicketId(t)))
        /\ UNCHANGED <<pre, arg, text, mode, llm_log, turn, run2, pure>>

\* _escalation_node with its two store calls, at clock reading t (time has
\* passed since the last reading): save_conversation, then create_ticket,
\* then the returned dict. Either call can raise; create_ticket raises also
\* when its id is a key of the table already. An exception leaves the node
\* with what was written before it
Escalate ==
    \E t \in now..MaxClock, save \in StoreResults(TRUE), ticket \in StoreResults(TRUE) :
        /\ pc = "escalate"
        /\ now' = t
        /\ IF save = "raise"
           THEN /\ Fail("escalate", "save_error")
                /\ store_log' = Append(store_log, StoreCall("save_conversation", "raise"))
                /\ UNCHANGED <<saved, tickets>>
           ELSE /\ saved' = SaveConversation(saved, ConversationRow(chan, t))
                /\ IF ticket = "raise" \/ TicketIdTaken(t)
                   THEN /\ Fail("escalate", "ticket_error")
                        /\ store_log' = store_log \o <<StoreCall("save_conversation", "ok"),
                                                        StoreCall("create_ticket", "raise")>>
                        /\ UNCHANGED tickets
                   ELSE /\ tickets' = tickets \cup {TicketRow(chan, t)}
                        /\ store_log' = store_log \o <<StoreCall("save_conversation", "ok"),
                                                        StoreCall("create_ticket", "ok")>>
                        /\ NodeStep("escalate", EscalationNode(chan, TicketId(t)))
        /\ UNCHANGED <<pre, arg, text, mode, llm_log, turn, run2, pure>>

\* the runner gives up when the step limit is reached with a node still to run
RecursionError ==
    /\ pc \in Nodes
    /\ steps = MaxSteps
    /\ pc' = "idle"
    /\ outcome' = "recursion_error"
    /\ UNCHANGED <<conv, pre, arg, text, mode, chan, steps, trace, events, llm_log, store_log, turn,
                   now, tickets, saved, run2, pure>>

\* the first statements of a call: ingest the message into the caller's dict,
\* then run the graph on it from its entry point
Start(message, m) ==
    /\ pc = "idle"
    /\ turn < MaxTurns
    /\ pre' = conv
    /\ arg' = Ingest(conv, message)
    /\ conv' = arg'
    /\ text' = message
    /\ mode' = m
    /\ chan' = LoadInput(arg')
    /\ pc' = "identify"
    /\ steps' = 0
    /\ trace' = <<>>
    /\ events' = <<>>
    /\ llm_log' = <<>>
    /\ store_log' = <<>>
    /\ outcome' = "none"
    /\ turn' = turn + 1
    /\ UNCHANGED <<now, tickets, saved>>

\* a call on a new conversation, or on one that was handed over to a human
Begin(message, m) ==
    /\ turn = 0 \/ conv.is_human_takeover
    /\ Start(message, m)

\* send_message
SendMessage == \E message \in Inputs : Begin(message, "invoke") /\ UNCHANGED <<run2, pure>>

\* stream_message, consumed to its end
StreamMessage == \E message \in Inputs : Begin(message, "stream") /\ UNCHANGED <<run2, pure>>

-----------------------------------------------------------------------------
(* A second send_message with the same (state, text): once the first call   *)
(* has ended, the same text is sent again on a fresh copy of the state the   *)
(* first call was given, to the same agent and store.                        *)

\* no helper function has been applied on its own
NoPure ==
    /\ window_in = <<>>
    /\ window_max = DefaultMaxMessages
    /\ window_out = <<>>
    /\ scrubbed = ""

NoRun2 ==
    /\ chan2 = StartConversation
    /\ pc2 = "idle"
    /\ steps2 = 0
    /\ llm_log2 = <<>>
    /\ outcome2 = "none"

\* send_message of the first call of a pair, on the state start_conversation
\* built
PairSend ==
    /\ turn = 0
    /\ \E message \in Inputs : Begin(message, "invoke")
    /\ chan2' = StartConversation
    /\ pc2' = "idle"
    /\ steps2' = 0
    /\ llm_log2' = <<>>
    /\ outcome2' = "none"
    /\ UNCHANGED pure

\* send_message(copy of the state, same text)
SecondSend ==
    /\ pc = "idle"
    /\ outcome = "returned"
    /\ pc2 = "idle"
    /\ outcome2 = "none"
    /\ chan2' = LoadInput(Ingest(pre, text))
    /\ pc2' = "identify"
    /\ steps2' = 0
    /\ llm_log2' = <<>>
    /\ outcome2' = "none"
    /\ UNCHANGED <<conv, pre, arg, text, mode, chan, pc, steps, trace, events, llm_log, store_log, outcome,
                   turn, now, tickets, saved, pure>>

\* the dict the node returns in the second run
SecondUpdate(node, r, t) ==
    CASE node = "identify"      -> IdentifyNode(chan2)
      [] node = "supervisor"    -> SupervisorNode(chan2, r)
      [] node = "order_agent"   -> OrderAgentNode(chan2)
      [] node = "tech_agent"    -> TechAgentNode(chan2)
      [] node = "billing_agent" -> BillingAgentNode(chan2)
      [] node = "general_agent" -> GeneralSupportNode(chan2)
      [] node = "escalate"      -> EscalationNode(chan2, TicketId(t))

\* one node step of the second run
SecondStep ==
    \E r \in IF pc2 = "supervisor" THEN LlmChoices(chan2) ELSE {"nocall"},
       t \in IF pc2 = "escalate" THEN now..MaxClock ELSE {now} :
        LET update == SecondUpdate(pc2, r, t)
            next == Edge(pc2, update)
            failed == pc2 = "escalate" /\ TicketIdTaken(t)
        IN /\ pc2 \in Nodes
           /\ steps2 < MaxSteps
           /\ now' = t
           /\ saved' = IF pc2 = "escalate"
                       THEN SaveConversation(saved, ConversationRow(chan2, t))
                       ELSE saved
           /\ tickets' = IF pc2 = "escalate" /\ ~failed
                         THEN tickets \cup {TicketRow(chan2, t)}
                         ELSE tickets
           /\ chan2' = IF failed THEN chan2 ELSE ApplyUpdate(chan2, update)
           /\ steps2' = IF failed THEN steps2 ELSE steps2 + 1
           /\ llm_log2' = IF r = "nocall" THEN llm_log2 ELSE Append(llm_log2, r)
           /\ pc2' = IF failed \/ next = "END" THEN "idle" ELSE next
           /\ outcome2' = IF failed THEN "ticket_error"
                          ELSE IF next = "END" THEN "returned" ELSE outcome2
           /\ UNCHANGED <<conv, pre, arg, text, mode, chan, pc, steps, trace, events, llm_log, store_log,
                          outcome, turn, pure>>

SecondRecursionError ==
    /\ pc2 \in Nodes
    /\ steps2 = MaxSteps
    /\ pc2' = "idle"
    /\ outcome2' = "recursion_error"
    /\ UNCHANGED <<conv, pre, arg, text, mode, chan, pc, steps, trace, events, llm_log, store_log, outcome,
                   turn, now, tickets, saved, chan2, steps2, llm_log2, pure>>

Init ==
    /\ conv = StartConversation
    /\ pre = StartConversation
    /\ arg = StartConversation
    /\ text = ""
    /\ mode = "none"
    /\ chan = StartConversation
    /\ pc = "idle"
    /\ steps = 0
    /\ trace = <<>>
    /\ events = <<>>
    /\ llm_log = <<>>
    /\ store_log = <<>>
    /\ outcome = "none"
    /\ turn = 0
    /\ now = 0
    /\ tickets = {}
    /\ saved = {}
    /\ NoRun2
    /\ NoPure

Next ==
    \/ SendMessage
    \/ StreamMessage
    \/ Identify
    \/ Supervisor
    \/ OrderAgent
    \/ TechAgent
    \/ BillingAgent
    \/ GeneralAgent
    \/ Escalate
    \/ RecursionError

Spec == Init /\ [][Next]_vars

PairNext ==
    \/ PairSend
    \/ Identify
    \/ Supervisor
    \/ OrderAgent
    \/ TechAgent
    \/ BillingAgent
    \/ GeneralAgent
    \/ Escalate
    \/ RecursionError
    \/ SecondSend
    \/ SecondStep
    \/ SecondRecursionError

PairSpec == Init /\ [][PairNext]_vars

-----------------------------------------------------------------------------
(* The caller sends again on the state it holds after an escalation that    *)
(* failed on the store.                                                      *)

Retry ==
    \E message \in Inputs, m \in {"invoke", "stream"} :
        /\ outcome \in {"save_error", "ticket_error"}
        /\ Start(message, m)
        /\ UNCHANGED <<run2, pure>>

RetryNext ==
    \/ SendMessage
    \/ StreamMessage
    \/ Identify
    \/ Supervisor
    \/ OrderAgent
    \/ TechAgent
    \/ BillingAgent
    \/ GeneralAgent
    \/ Escalate
    \/ RecursionError
    \/ Retry

RetrySpec == Init /\ [][RetryNext]_vars

\* a conversation state whose customer is bound already
BoundTo(c) ==
    [StartConversation EXCEPT !.customer_id = c.customer_id,
                              !.customer_name = c.name,
                              !.customer_tier = c.tier]

\* the states a session layer hands to the first call: chat_endpoint takes the
\* state from the request when it carries one, start_conversation() otherwise
RestoredStates == {StartConversation} \cup {BoundTo(c) : c \in Customers}

RestoredInit ==
    /\ conv \in RestoredStates
    /\ pre = conv
    /\ arg = conv
    /\ chan = conv
    /\ text = ""
    /\ mode = "none"
    /\ pc = "idle"
    /\ steps = 0
    /\ trace = <<>>
    /\ events = <<>>
    /\ llm_log = <<>>
    /\ store_log = <<>>
    /\ outcome = "none"
    /\ turn = 0
    /\ now = 0
    /\ tickets = {}
    /\ saved = {}
    /\ NoRun2
    /\ NoPure

RestoredSpec == RestoredInit /\ [][Next]_vars

-----------------------------------------------------------------------------
(* Two conversations on one agent and one store, both at their escalation   *)
(* node: the first is the run of chan, the second the run of chan2. The two  *)
(* store calls of a node are separate steps, each reading the clock when it  *)
(* runs; the steps of the two conversations interleave freely and time       *)
(* passes between them. The clock is counted in ticks, the resolution of     *)
(* datetime.now().timestamp(); strftime('%y%m%d%H%M%S') keeps the second.    *)

\* ticks in a second
TicksPerSecond == 2

\* bound on the clock, in ticks
MaxTick == 3

SecondOf(tick) == tick \div TicksPerSecond

\* the graph state at the escalation node of a first call with this text:
\* identify has run, and the supervisor with the decision "escalate"
AtEscalation(message) ==
    LET loaded == LoadInput(Ingest(StartConversation, message))
        identified == ApplyUpdate(loaded, IdentifyNode(loaded))
    IN ApplyUpdate(identified, SupervisorNode(identified, "escalate"))

ConcurrentInit ==
    \E first \in Inputs, second \in Inputs :
        /\ pre = StartConversation
        /\ arg = Ingest(StartConversation, first)
        /\ conv = arg
        /\ text = first
        /\ mode = "invoke"
        /\ chan = AtEscalation(first)
        /\ pc = "escalate"
        /\ steps = 2
        /\ trace = <<[node |-> "identify", active_agent |-> "supervisor"],
                     [node |-> "supervisor", active_agent |-> "escalate"]>>
        /\ events = <<>>
        /\ llm_log = <<"escalate">>
        /\ store_log = <<>>
        /\ outcome = "none"
        /\ turn = 1
        /\ now = 0
        /\ tickets = {}
        /\ saved = {}
        /\ chan2 = AtEscalation(second)
        /\ pc2 = "escalate"
        /\ steps2 = 2
        /\ llm_log2 = <<"escalate">>
        /\ outcome2 = "none"
        /\ NoPure

\* time passes
Tick ==
    /\ now < MaxTick
    /\ now' = now + 1
    /\ UNCHANGED <<conv, pre, arg, text, mode, chan, pc, steps, trace, events, llm_log, store_log,
                   outcome, turn, tickets, saved, run2, pure>>

\* first conversation: self.db.save_conversation(session_data)
SaveFirst ==
    /\ pc = "escalate"
    /\ saved' = SaveConversation(saved, ConversationRow(chan, now))
    /\ store_log' = Append(store_log, StoreCall("save_conversation", "ok"))
    /\ pc' = "create_ticket"
    /\ UNCHANGED <<conv, pre, arg, text, mode, chan, steps, trace, events, llm_log, outcome, turn,
                   now, tickets, run2, pure>>

\* first conversation: tid = self.db.create_ticket(...) and the return of the
\* node; the INSERT raises when the id is a key of the table already
TicketFirst ==
    LET second == SecondOf(now)
        update == EscalationNode(chan, TicketId(second))
    IN /\ pc = "create_ticket"
       /\ pc' = "idle"
       /\ IF TicketIdTaken(second)
          THEN /\ outcome' = "ticket_error"
               /\ store_log' = Append(store_log, StoreCall("create_ticket", "raise"))
               /\ UNCHANGED <<conv, chan, steps, trace, tickets>>
          ELSE /\ tickets' = tickets \cup {TicketRow(chan, second)}
               /\ store_log' = Append(store_log, StoreCall("create_ticket", "ok"))
               /\ chan' = ApplyUpdate(chan, update)
               /\ conv' = chan'
               /\ steps' = steps + 1
               /\ trace' = Append(trace, [node |-> "escalate",
                                           active_agent |-> update.active_agent])
               /\ outcome' = "returned"
       /\ UNCHANGED <<pre, arg, text, mode, events, llm_log, turn, now, saved, run2, pure>>

\* second conversation: self.db.save_conversation(session_data)
SaveSecond ==
    /\ pc2 = "escalate"
    /\ saved' = SaveConversation(saved, ConversationRow(chan2, now))
    /\ pc2' = "create_ticket"
    /\ UNCHANGED <<conv, pre, arg, text, mode, chan, pc, steps, trace, events, llm_log, store_log,
                   outcome, turn, now, tickets, chan2, steps2, llm_log2, outcome2, pure>>

\* second conversation: tid = self.db.create_ticket(...) and the return of
\* the node
TicketSecond ==
    LET second == SecondOf(now) IN
    /\ pc2 = "create_ticket"
    /\ pc2' = "idle"
    /\ IF TicketIdTaken(second)
       THEN /\ outcome2' = "ticket_error"
            /\ UNCHANGED <<chan2, steps2, tickets>>
       ELSE /\ tickets' = tickets \cup {TicketRow(chan2, second)}
            /\ chan2' = ApplyUpdate(chan2, EscalationNode(chan2, TicketId(second)))
            /\ steps2' = steps2 + 1
            /\ outcome2' = "returned"
    /\ UNCHANGED <<conv, pre, arg, text, mode, chan, pc, steps, trace, events, llm_log, store_log,
                   outcome, turn, now, saved, llm_log2, pure>>

ConcurrentNext ==
    \/ Tick
    \/ SaveFirst
    \/ TicketFirst
    \/ SaveSecond
    \/ TicketSecond

ConcurrentSpec == ConcurrentInit /\ [][ConcurrentNext]_vars

-----------------------------------------------------------------------------
(* _trim_messages applied on its own: the argument grows by one message at  *)
(* a time and the function is applied to every argument. Only the first     *)
(* message may be a SystemMessage (the function looks at the type of         *)
(* messages[0] only); the content of a message is its zero-based index.      *)

\* bound on the length of the argument
MaxWindow == 12

Roles == {"system", "human", "ai"}

TrimLonger ==
    \E role \in IF window_in = <<>> THEN Roles ELSE Roles \ {"system"} :
        /\ Len(window_in) < MaxWindow
        /\ window_in' = Append(window_in,
                                [role |-> role, content |-> ToString(Len(window_in))])
        /\ window_out' = TrimMessages(window_in', DefaultMaxMessages)
        /\ UNCHANGED <<conv, pre, arg, mode, chan, pc, steps, trace, events, llm_log, store_log, outcome,
                   turn, now, tickets, saved, run2, text, scrubbed, window_max>>

TrimNext == TrimLonger

TrimSpec == Init /\ [][TrimNext]_vars

\* bound on the max_messages argument
MaxLimit == 4

\* _trim_messages(messages, max_messages) with any max_messages >= 1, on an
\* argument one message longer
TrimLongerTo ==
    \E max_messages \in 1..MaxLimit,
       role \in IF window_in = <<>> THEN Roles ELSE Roles \ {"system"} :
        /\ Len(window_in) < MaxWindow
        /\ window_in' = Append(window_in,
                                [role |-> role, content |-> ToString(Len(window_in))])
        /\ window_max' = max_messages
        /\ window_out' = TrimMessages(window_in', max_messages)
        /\ UNCHANGED <<conv, pre, arg, mode, chan, pc, steps, trace, events, llm_log, store_log,
                       outcome, turn, now, tickets, saved, run2, text, scrubbed>>

TrimMaxNext == TrimLongerTo

TrimMaxSpec == Init /\ [][TrimMaxNext]_vars

-----------------------------------------------------------------------------
(* _scrub_pii applied on its own: the text grows by one piece at a time and *)
(* the function is applied to every text.                                    *)

\* bound on the length of the text
MaxTextLen == 37

Pieces == {"contact me at ", "a@b.com", " or ", "415-555-0100", "+1 415-555-0100"}

ScrubLonger ==
    \E piece \in Pieces :
        /\ Len(text) + Len(piece) <= MaxTextLen
        /\ text' = text \o piece
        /\ scrubbed' = Scrub(text')
        /\ UNCHANGED <<conv, pre, arg, mode, chan, pc, steps, trace, events, llm_log, store_log, outcome,
                   turn, now, tickets, saved, run2, window_in, window_max, window_out>>

ScrubNext == ScrubLonger

ScrubSpec == Init /\ [][ScrubNext]_vars

-----------------------------------------------------------------------------
(* Properties *)

\* the last call has ended, one way or another
Ended == pc = "idle" /\ outcome # "none"

\* the last call handed a state back to its caller
Returned == pc = "idle" /\ outcome = "returned"

IsPrefix(a, b) == Len(a) <= Len(b) /\ SubSeq(b, 1, Len(a)) = a

\* the entries a run added to the messages it was given
Added(before, after) == SubSeq(after, Len(before) + 1, Len(after))

HasAi(msgs) == \E i \in 1..Len(msgs) : msgs[i].role = "ai"

NodesRun == {trace[i].node : i \in 1..Len(trace)}

\* C1: every call terminates by itself: whatever the reasoning capability
\* answers, the traversal reaches a terminal state (the supervisor selects
\* end, or the escalation node sets human takeover); it is never cut off
\* while still cycling supervisor -> specialist -> supervisor.
C1_AdvanceReachesTerminal ==
    Ended =>
        /\ outcome # "recursion_error"
        /\ \/ Last(trace) = [node |-> "supervisor", active_agent |-> "end"]
           \/ Last(trace).node = "escalate" /\ chan.is_human_takeover

\* C2: a call on a state under human takeover appends no assistant message,
\* makes no reasoning call, runs no specialist and no escalation, and returns
\* with active_agent = end.
C2_TakeoverCallIsSilent ==
    (Returned /\ pre.is_human_takeover) =>
        /\ ~HasAi(Added(pre.messages, chan.messages))
        /\ llm_log = <<>>
        /\ NodesRun \subseteq {"identify", "supervisor"}
        /\ chan.active_agent = "end"

\* a billing step of the last run handed off: it returned active_agent = escalate
BillingHandedOff ==
    \E i \in 1..Len(trace) :
        trace[i] = [node |-> "billing_agent", active_agent |-> "escalate"]

\* C3: when the billing specialist hands off (trigger word in the latest
\* message), the escalation node is the next handler of the same turn, so the
\* turn ends with an assistant message naming a ticket and with human takeover.
C3_BillingHandOffEscalates ==
    /\ \A i \in 1..Len(trace) :
           (trace[i].node = "billing_agent" /\ trace[i].active_agent = "escalate"
            /\ i + 2 <= Len(trace))
               => trace[i + 2].node = "escalate"
    /\ (Returned /\ BillingHandedOff) =>
           /\ chan.is_human_takeover
           /\ Last(chan.messages).role = "ai"
           /\ Contains(Last(chan.messages).content, "Ticket #TICK-")

\* C4: when every reasoning call of a run raises, the call still returns to
\* its caller, with the generic general_support answer appended and
\* active_agent = general_support.
C4_OutageFailsOpen ==
    (Ended /\ llm_log # <<>> /\ \A i \in 1..Len(llm_log) : llm_log[i] = "raise") =>
        /\ outcome = "returned"
        /\ chan.active_agent = "general_support"
        /\ Last(chan.messages) = AIMessage(GeneralText)

\* C5: a call on an unidentified state whose text contains the e-mail address
\* of a customer of the directory returns a state bound to that customer.
C5_IdentifiedByEmail ==
    \A c \in Customers :
        (Returned /\ pre.customer_id = None /\ Contains(text, c.email)) =>
            /\ chan.customer_id = c.customer_id
            /\ chan.customer_name = c.name
            /\ chan.customer_tier = c.tier

C7_TokensCountedOnce ==
    mode # "none" =>
        /\ chan.total_tokens = pre.total_tokens + 2 * WordCount(ScrubPii(text)) + 100
        /\ arg.total_tokens = chan.total_tokens
        /\ conv.total_tokens = chan.total_tokens
        /\ chan.total_tokens > pre.total_tokens

\* C7 witness: a streamed call whose text loses a word by redaction ended
\* after a specialist ran
C7_Witness ==
    /\ Returned
    /\ mode = "stream"
    /\ WordCount(ScrubPii(text)) # WordCount(text)
    /\ NodesRun \cap Specialists # {}

\* both calls of a pair handed a state back
PairReturned == Returned /\ pc2 = "idle" /\ outcome2 = "returned"

\* C8 as stated: two calls with the same (state, text), each on a fresh copy
\* of the state, return the same total_tokens and the same number of
\* messages, whatever the reasoning capability answers in each.
C8_PairAgrees ==
    PairReturned =>
        /\ chan.total_tokens = chan2.total_tokens
        /\ Len(chan.messages) = Len(chan2.messages)

\* C8 amended: the two calls return the same total_tokens; they return the
\* same number of messages when the reasoning capability gave the same
\* sequence of answers (decisions and failures) in both.
C8_PairAgreesOnTokens ==
    PairReturned =>
        /\ chan.total_tokens = chan2.total_tokens
        /\ llm_log = llm_log2 => Len(chan.messages) = Len(chan2.messages)

\* C8 witness: both calls returned after the same two answers, a specialist
\* having run in each
C8_Witness ==
    /\ PairReturned
    /\ llm_log = llm_log2
    /\ Len(llm_log) = 2
    /\ steps2 = 4

\* C9: a call does not change the state value its caller passed in: the
\* messages and total_tokens of that dict are the same after the call as
\* before it.
C9_InputNotMutated ==
    Ended =>
        /\ arg.messages = pre.messages
        /\ arg.total_tokens = pre.total_tokens

\* C10: is_human_takeover is one-way: no node step and no call sets it back
\* to false, in the graph's state or in the state the caller holds.
C10_TakeoverOneWay ==
    [][/\ chan.is_human_takeover => chan'.is_human_takeover
       /\ conv.is_human_takeover => conv'.is_human_takeover]_vars

\* C10 witness: a call made under human takeover ran to its end
C10_Witness ==
    /\ Returned
    /\ pre.is_human_takeover
    /\ Len(trace) = 2
    /\ chan.is_human_takeover
    /\ conv.is_human_takeover

Identity(state) == <<state.customer_id, state.customer_name, state.customer_tier>>

\* C11: customer_id is bound at most once: once it is set, no node step and
\* no call changes customer_id, customer_name or customer_tier, in the graph
\* state or in the state the caller holds; and the identify node leaves a
\* bound state as it is whatever the latest human message is, a message with
\* another customer's address included.
C11_CustomerBoundOnce ==
    [][/\ chan.customer_id # None => Identity(chan') = Identity(chan)
       /\ conv.customer_id # None => Identity(conv') = Identity(conv)
       /\ chan.customer_id # None =>
              \A message \in Inputs :
                  LET state == [chan EXCEPT !.messages = Append(@, HumanMessage(message))]
                  IN IdentifyNode(state) = state]_vars

\* C11 witness: a call on a conversation bound to Bob Smith, with a text
\* that holds Alice Johnson's address, returned after an order answer
C11_Witness ==
    /\ Returned
    /\ pre.customer_id = "C2"
    /\ Contains(text, "alice@example.com")
    /\ "order_agent" \in NodesRun
    /\ Identity(chan) = <<"C2", "Bob Smith", "standard">>

EscalationText(tid) == "ESCALATION: A human will help you. Ticket #" \o tid \o ". AI is now paused."

\* C12: the escalation node saves the conversation, then creates the ticket,
\* then appends one assistant message naming the ticket and sets human
\* takeover, each once: its store calls are save_conversation and, when that
\* succeeded, create_ticket, in this order and once each, and the flag is set
\* only after both succeeded; a completed escalation step wrote one conversation
\* row holding every message of the transcript, one ticket row, one message
\* with that ticket's id, and the flag; a step whose create_ticket raised
\* had saved the conversation already; a step whose save_conversation raised
\* created no ticket; and the flag turns true only in a step that created a
\* ticket.
C12_EscalationOrder ==
    [][/\ (pc = "escalate" /\ outcome' # "recursion_error") =>
              LET calls == Added(store_log, store_log') IN
              /\ Len(calls) \in {1, 2}
              /\ calls[1].call = "save_conversation"
              /\ Len(calls) = 2 =>
                     calls[1].result = "ok" /\ calls[2].call = "create_ticket"
              /\ chan'.is_human_takeover =>
                     calls = <<StoreCall("save_conversation", "ok"),
                               StoreCall("create_ticket", "ok")>>
       /\ pc = "escalate" =>
              /\ outcome' = "returned" =>
                     /\ ConversationRow(chan, now') \in saved'
                     /\ Len(ConversationRow(chan, now').messages_json) = Len(chan.messages)
                     /\ Cardinality(saved' \ saved) <= 1
                     /\ tickets' \ tickets = {TicketRow(chan, now')}
                     /\ chan'.messages =
                            Append(chan.messages, AIMessage(EscalationText(TicketId(now'))))
                     /\ chan'.is_human_takeover
              /\ outcome' = "ticket_error" =>
                     /\ ConversationRow(chan, now') \in saved'
                     /\ tickets' = tickets
                     /\ chan' = chan
              /\ outcome' = "save_error" =>
                     /\ saved' = saved
                     /\ tickets' = tickets
                     /\ chan' = chan
       /\ (chan'.is_human_takeover /\ ~chan.is_human_takeover) =>
              /\ pc = "escalate"
              /\ Cardinality(tickets' \ tickets) = 1]_vars

\* C12 witness: a run ended with a completed escalation: the row, the ticket
\* and the message naming it are there and the conversation is under takeover
C12_Witness ==
    /\ Returned
    /\ Last(trace).node = "escalate"
    /\ \E row \in tickets :
           /\ Last(chan.messages) = AIMessage(EscalationText(row.ticket_id))
           /\ \E r \in saved : Len(r.messages_json) + 1 = Len(chan.messages)
    /\ chan.is_human_takeover

\* a store call of the escalation node raised in the last run
EscalationStoreRaised ==
    \E i \in 1..Len(store_log) :
        /\ store_log[i].call \in {"save_conversation", "create_ticket"}
        /\ store_log[i].result = "raise"

IsEscalationMessage(m) == m.role = "ai" /\ Contains(m.content, "ESCALATION")

\* C13: a store failure in the escalation node is fatal to the turn: when
\* save_conversation or create_ticket raised, the call ended with that error
\* at its caller instead of a state, the run appended no escalation message
\* and did not set human takeover, and when it was save_conversation that
\* raised, create_ticket was not called and the tickets table is as before.
C13_StorageFailureIsFatal ==
    (Ended /\ EscalationStoreRaised) =>
        /\ outcome \in {"save_error", "ticket_error"}
        /\ mode = "invoke" => conv = arg
        /\ ~chan.is_human_takeover /\ ~conv.is_human_takeover
        /\ \A i \in 1..Len(chan.messages) : ~IsEscalationMessage(chan.messages[i])
        /\ outcome = "save_error" =>
               /\ \A i \in 1..Len(store_log) : store_log[i].call # "create_ticket"
               /\ tickets = {}

\* C13 witness: send_message ended with the error of create_ticket, after a
\* specialist had answered and the conversation row had been written
C13_Witness ==
    /\ Ended
    /\ outcome = "ticket_error"
    /\ mode = "invoke"
    /\ Len(trace) = 4
    /\ saved # {}
    /\ tickets = {}
    /\ conv = arg

\* a lookup of the last run (customer by e-mail, orders of a customer) raised
LookupRaised ==
    \E i \in 1..Len(store_log) :
        /\ store_log[i].call \in {"get_customer_by_email", "get_customer_orders"}
        /\ store_log[i].result = "raise"

\* C14: a failure of the directory during the customer lookup of identify or
\* the order lookup of the order specialist is taken as "no match": the turn
\* goes on and the call returns a state to its caller, no error.
C14_LookupFailureIsNoMatch ==
    (Ended /\ LookupRaised) => outcome # "lookup_error"

\* how many steps of the current/last run were steps of node
Entries(node) == Cardinality({i \in 1..Len(trace) : trace[i].node = node})

\* C15: while one inbound message is processed the identify node runs at
\* most once and each specialist is entered at most once.
C15_PerTurnStepBound ==
    /\ Entries("identify") <= 1
    /\ \A node \in Specialists : Entries(node) <= 1

\* the nodes of the steps of the current/last run, in the order they ran
NodesOf(steps_run) == [i \in 1..Len(steps_run) |-> steps_run[i].node]

\* C16: stream_message yields one event per completed node, in the order the
\* nodes ran, none reordered, repeated or left out, and yields nothing more
\* once the run reached END: at every moment of a streamed call the nodes
\* named by the events are the nodes that have completed, in order; the last
\* event of a completed stream is that of the supervisor step that selected
\* end or of the escalation step.
C16_StreamOrder ==
    mode = "stream" =>
        /\ events = NodesOf(trace)
        /\ Returned =>
               \/ Last(events) = "supervisor" /\ Last(trace).active_agent = "end"
               \/ Last(events) = "escalate"

\* C16 witness: a stream of five events ended with the escalation node's,
\* after a specialist had run
C16_Witness ==
    /\ mode = "stream"
    /\ Returned
    /\ Len(events) = 5
    /\ events[3] \in Specialists
    /\ events[5] = "escalate"

\* C17: the state carried by the last event of stream_message equals the state
\* send_message returns for the same input state, text and routing decisions
\* (the final values of the graph's channels): same messages, active_agent,
\* is_human_takeover, identity fields and total_tokens.
C17_StreamEqualsSync ==
    (mode = "stream" /\ Returned) =>
        /\ conv.messages = chan.messages
        /\ conv.active_agent = chan.active_agent
        /\ conv.is_human_takeover = chan.is_human_takeover
        /\ Identity(conv) = Identity(chan)
        /\ conv.total_tokens = chan.total_tokens

\* the contents of the human messages of a transcript
HumanContents(messages) ==
    {messages[i].content : i \in {j \in 1..Len(messages) : messages[j].role = "human"}}

\* a text the redactor leaves as it is: nothing in it matches its patterns
IsRedacted(s) == ScrubPii(s) = s /\ SearchEmail(s) = ""

\* C18: redaction on every path: the human message a call stores is the
\* redacted form of its text, in the caller's dict and in the graph state,
\* under send_message and stream_message alike; no human message of the
\* transcript is a text the redactor would still change; and every message
\* of every conversation row handed to save_conversation is redacted.
C18_RedactedOnEveryPath ==
    /\ mode # "none" =>
           /\ arg.messages = Append(pre.messages, HumanMessage(ScrubPii(text)))
           /\ IsPrefix(arg.messages, chan.messages)
    /\ \A c \in HumanContents(chan.messages) \cup HumanContents(conv.messages) :
           /\ c \in {ScrubPii(message) : message \in Inputs}
           /\ IsRedacted(c)
    /\ \A row \in saved :
           \A c \in {row.messages_json[i] : i \in 1..Len(row.messages_json)} :
               IsRedacted(c)

\* C18 witness: a streamed call whose text held an e-mail address ended in an
\* escalation: the masked text is in the transcript and in the saved row, the
\* address in neither
C18_Witness ==
    /\ Returned
    /\ mode = "stream"
    /\ Contains(text, "alice@example.com")
    /\ \E i \in 1..Len(chan.messages) : Contains(chan.messages[i].content, "[EMAIL_MASKED]")
    /\ \E row \in saved :
           /\ \E i \in 1..Len(row.messages_json) :
                  Contains(row.messages_json[i], "[EMAIL_MASKED]")
           /\ \A i \in 1..Len(row.messages_json) : ~Contains(row.messages_json[i], "@")

\* the contents of a sequence of messages, in order
ContentsOf(messages) == [i \in 1..Len(messages) |-> messages[i].content]

\* C19: with the default max of 10, _trim_messages returns its argument
\* unchanged when it has at most 10 messages; otherwise, when the first
\* message is a system message, that message followed by the 9 most recent
\* ones in their order (of 12 messages: message 0, then messages 3..11), and
\* otherwise the 10 most recent ones in their order.
C19_TrimWindow ==
    LET n == Len(window_in) IN
    /\ n <= 10 => window_out = window_in
    /\ n > 10 /\ window_in[1].role = "system" =>
           /\ Len(window_out) = 10
           /\ window_out[1] = window_in[1]
           /\ \A i \in 2..10 : window_out[i] = window_in[n - 10 + i]
    /\ n > 10 /\ window_in[1].role # "system" =>
           /\ Len(window_out) = 10
           /\ \A i \in 1..10 : window_out[i] = window_in[n - 10 + i]
    /\ n = 12 /\ window_in[1].role = "system" =>
           ContentsOf(window_out) = <<"0", "3", "4", "5", "6", "7", "8", "9", "10", "11">>

\* 12 messages, the first a system message, have been trimmed to 10
C19_Witness ==
    /\ Len(window_in) = 12
    /\ window_in[1].role = "system"
    /\ Len(window_out) = 10
    /\ window_out[1].role = "system"
    /\ window_out[2].content = "3"

\* s without the separators the phone pattern allows between digits
RECURSIVE Unseparated(_)
Unseparated(s) ==
    IF Len(s) = 0 THEN ""
    ELSE IF Len(s) = 1 THEN (IF IsSpace(s) \/ s = "-" THEN "" ELSE s)
    ELSE LET h == Len(s) \div 2 IN
         Unseparated(SubSeq(s, 1, h)) \o Unseparated(SubSeq(s, h + 1, Len(s)))

\* s holds a run of at least 10 digits, separators aside
HasPhoneShape(s) ==
    LET u == Unseparated(s) IN
    \E i \in 1..(Len(u) - 9) : \A k \in i..(i + 9) : IsDigit(Char(u, k))

ExampleText == "contact me at a@b.com or 415-555-0100"

\* C20: _scrub_pii replaces every e-mail-shaped substring by the e-mail
\* placeholder and every phone-shaped substring of at least 10 digits by the
\* phone placeholder: the result for 'contact me at a@b.com or 415-555-0100'
\* holds both placeholders and no phone-shaped run of digits.
C20_ExampleRedacted ==
    text = ExampleText =>
        /\ Contains(scrubbed, "[EMAIL_MASKED]")
        /\ Contains(scrubbed, "[PHONE_MASKED]")
        /\ ~HasPhoneShape(scrubbed)

\* C21: the escalation node is the only step that sets is_human_takeover, in
\* the graph state and in the state the caller holds, and the run ends with
\* the escalation step: no supervisor step (no step at all) follows it.
C21_EscalationIsTerminal ==
    /\ [](\A i \in 1..Len(trace) :
              trace[i].node = "escalate" => (i = Len(trace) /\ pc = "idle"))
    /\ [][((~chan.is_human_takeover /\ chan'.is_human_takeover)
           \/ (~conv.is_human_takeover /\ conv'.is_human_takeover))
              => /\ pc = "escalate"
                 /\ trace' = Append(trace, [node |-> "escalate", active_agent |-> chan.active_agent])
                 /\ pc' = "idle"
                 /\ outcome' = "returned"]_vars

\* a run has ended with its escalation step and the caller holds the takeover
C21_Witness ==
    /\ Returned
    /\ Len(trace) > 0
    /\ Last(trace).node = "escalate"
    /\ \A i \in 1..(Len(trace) - 1) : trace[i].node # "escalate"
    /\ conv.is_human_takeover
    /\ chan.is_human_takeover

\* C22: a supervisor step is a pure decision: it changes active_agent only;
\* messages, the identity fields, total_tokens and is_human_takeover of the
\* graph state after the step are those before it.
C22_RouterStepIsPure ==
    [][(pc = "supervisor" /\ steps' = steps + 1) =>
           /\ chan'.messages = chan.messages
           /\ Identity(chan') = Identity(chan)
           /\ chan'.total_tokens = chan.total_tokens
           /\ chan'.is_human_takeover = chan.is_human_takeover]_vars

\* the node about to run answers with one message: the order, tech or
\* general specialist, the billing specialist on a message without a trigger
\* word, or the escalation node
AnswersWithOneMessage ==
    \/ pc \in {"order_agent", "tech_agent", "general_agent", "escalate"}
    \/ pc = "billing_agent" /\ ~BillingTriggered(chan)

\* C23: each completed step of the order, tech or general specialist, of the
\* billing specialist on a message without a trigger word, and of the
\* escalation node extends messages by exactly one new assistant message: the
\* length after the step is the length before plus one.
C23_OneMessagePerStep ==
    [][(AnswersWithOneMessage /\ steps' = steps + 1) =>
           /\ Len(chan'.messages) = Len(chan.messages) + 1
           /\ IsPrefix(chan.messages, chan'.messages)
           /\ Last(chan'.messages).role = "ai"]_vars

\* the generalist, the billing specialist (no trigger word) or the
\* escalation node has just answered
C23_Witness ==
    /\ Len(trace) > 0
    /\ \/ Last(trace).node = "general_agent" /\ Last(chan.messages) = AIMessage(GeneralText)
       \/ Last(trace).node = "billing_agent" /\ Last(chan.messages) = AIMessage(BillingText)
       \/ Last(trace).node = "escalate" /\ IsEscalationMessage(Last(chan.messages))
    /\ Len(chan.messages) > Len(arg.messages)

\* C24: the supervisor step fails open: when the reasoning call raises (the
\* step is not under takeover and not short-circuited by the closing phrase,
\* or the call would not be made), the step raises nothing and returns
\* active_agent = general_support, so the generalist runs next; and whatever
\* the call does, the active_agent a supervisor step returns is one of the
\* six values of RouterDecision.next_agent.
C24_RouterFailsOpen ==
    [][pc = "supervisor" =>
           /\ (llm_log' = Append(llm_log, "raise")) =>
                  /\ ~SupervisorShortCircuits(chan)
                  /\ steps' = steps + 1
                  /\ outcome' = outcome
                  /\ chan'.active_agent = "general_support"
                  /\ Last(trace') = [node |-> "supervisor", active_agent |-> "general_support"]
                  /\ pc' = "general_agent"
           /\ steps' = steps + 1 =>
                  /\ chan'.active_agent \in RouterAgents
                  /\ Last(trace').active_agent \in RouterAgents]_vars

\* a reasoning call raised and the generalist answered after it
C24_Witness ==
    /\ Len(llm_log) > 0
    /\ Last(llm_log) = "raise"
    /\ Len(trace) >= 2
    /\ trace[Len(trace) - 1] = [node |-> "supervisor", active_agent |-> "general_support"]
    /\ Last(trace).node = "general_agent"
    /\ outcome = "none"

\* C25: for every max >= 1 and every sequence of more than max messages,
\* _trim_messages(messages, max) returns exactly max entries, whether or not
\* the first message is a system message.
C25_TrimReturnsMax ==
    (window_max >= 1 /\ Len(window_in) > window_max) => Len(window_out) = window_max

\* C26: across the calls made on a conversation started by
\* start_conversation, at most one ticket is created and at most one
\* conversation record is saved, and the state the caller holds has
\* is_human_takeover set exactly when the ticket has been created.
C26_OneTicketOneRecord ==
    /\ Cardinality(tickets) <= 1
    /\ Cardinality(saved) <= 1
    /\ conv.is_human_takeover <=> tickets # {}

\* the routing names of the specialists
SpecialistNames ==
    {"order_specialist", "tech_specialist", "billing_specialist", "general_support"}

\* C27: the state a completed call hands back has active_agent = end when the
\* turn finished through the supervisor and active_agent = escalate when it
\* finished through the escalation node; it is never a specialist's name nor
\* the initial value supervisor.
C27_FinalActiveAgent ==
    Returned =>
        /\ Last(trace).node \in {"supervisor", "escalate"}
        /\ Last(trace).node = "supervisor" =>
               conv.active_agent = "end" /\ chan.active_agent = "end"
        /\ Last(trace).node = "escalate" =>
               conv.active_agent = "escalate" /\ chan.active_agent = "escalate"
        /\ conv.active_agent \notin SpecialistNames \cup {StartConversation.active_agent}

\* a call has returned through the escalation node, a specialist having
\* answered earlier in the turn
C27_Witness ==
    /\ Returned
    /\ Last(trace).node = "escalate"
    /\ \E i \in 1..Len(trace) : trace[i].node \in Specialists
    /\ conv.active_agent = "escalate"

\* C28: a call on a state under human takeover still appends the redacted
\* human message to messages and still adds the estimate for it to
\* total_tokens, although no handler responds: the state handed to the graph
\* is the caller's plus that message, and the state handed back still ends
\* with it and carries the increased count, only identify and supervisor
\* having run, without a reasoning call.
C28_TakeoverStillIngests ==
    (mode # "none" /\ pre.is_human_takeover) =>
        LET safe_msg == ScrubPii(text) IN
        /\ arg.messages = Append(pre.messages, HumanMessage(safe_msg))
        /\ arg.total_tokens = pre.total_tokens + EstimateTokens(safe_msg)
        /\ Returned =>
               /\ IsPrefix(arg.messages, conv.messages)
               /\ Last(conv.messages) = HumanMessage(safe_msg)
               /\ conv.total_tokens = pre.total_tokens + EstimateTokens(safe_msg)
               /\ NodesRun = {"identify", "supervisor"}
               /\ llm_log = <<>>

\* a call made under human takeover has returned
C28_Witness ==
    /\ Returned
    /\ turn = 2
    /\ pre.is_human_takeover
    /\ Len(arg.messages) = Len(pre.messages) + 1
    /\ Last(conv.messages).role = "human"
    /\ conv.total_tokens > pre.total_tokens

\* the ticket id an escalation message names
TicketNamed(m) == SubSeq(m.content, Len("ESCALATION: A human will help you. Ticket #") + 1,
                         Len(m.content) - Len(". AI is now paused."))

\* C29: when two distinct conversations escalate concurrently on one agent,
\* in any interleaving, both reading the same clock second included, both
\* create_ticket calls succeed, the two conversations are given distinct
\* ticket ids, and neither saved record overwrites the other's.
C29_ConcurrentEscalations ==
    /\ (pc # "escalate" /\ pc2 # "escalate") => Cardinality(saved) = 2
    /\ (pc = "idle" /\ pc2 = "idle") =>
           /\ outcome = "returned"
           /\ outcome2 = "returned"
           /\ Cardinality(tickets) = 2
           /\ TicketNamed(Last(chan.messages)) # TicketNamed(Last(chan2.messages))

====
